---------------------------- MODULE Spec2Model ----------------------------
(***************************************************************************)
(* Model of app.py, the Streamlit speech-recognition page.                 *)
(*                                                                         *)
(* One script run (one Streamlit rerun) is one step.  The session state    *)
(* (last_transcript, segments) and the widget state (API, language, file,  *)
(* debug toggle) persist between runs; the page rendered by the last run   *)
(* decides which buttons the user can click next.                          *)
(*                                                                         *)
(* Python str values are sequences of Unicode code points, bytes values    *)
(* are sequences of 0..255.  The outcomes of the calls into tempfile,      *)
(* speech_recognition and the file system are chosen nondeterministically. *)
(***************************************************************************)
EXTENDS Integers, Sequences, FiniteSets, TLC

VARIABLES
    last_transcript,  \* st.session_state["last_transcript"]: None or a str
    segments,         \* st.session_state["segments"]: list of str
    api_choice,       \* API_CHOICES[api_label]
    language_code,    \* LANG_MAP[lang_label]
    audio_file,       \* st.file_uploader value: None or an uploaded file
    show_debug,       \* st.checkbox value
    event,            \* what triggered the last script run
    call,             \* the transcribe_speech_from_file call of the last run
    page              \* what the last script run rendered

vars == <<last_transcript, segments, api_choice, language_code, audio_file,
          show_debug, event, call, page>>

\* Longest document the model builds (guard of the add action).
MaxSegments == 2

----------------------------------------------------------------------------
\* Python values

\* Python's None / a present value.
None == [some |-> FALSE, val |-> <<>>]
Some(v) == [some |-> TRUE, val |-> v]

\* bool(x) of an optional str, as in `if st.session_state.get("last_transcript")`:
\* None and "" are falsy (mutant: only None is falsy).
TruthyNotNone(x) == x.some
Truthy(x) == x.some /\ Len(x.val) > 0

\* str.startswith
StartsWith(s, p) == Len(s) >= Len(p) /\ SubSeq(s, 1, Len(p)) = p

\* str.isspace() of one character (Unicode White_Space plus U+001C..U+001F).
IsSpace(c) ==
    \/ c \in 9..13
    \/ c \in 28..32
    \/ c \in {133, 160, 5760, 8232, 8233, 8239, 8287, 12288}
    \/ c \in 8192..8202

RECURSIVE LStrip(_)
LStrip(s) == IF s # <<>> /\ IsSpace(Head(s)) THEN LStrip(Tail(s)) ELSE s

RECURSIVE RStrip(_)
RStrip(s) ==
    IF s # <<>> /\ IsSpace(s[Len(s)]) THEN RStrip(SubSeq(s, 1, Len(s) - 1)) ELSE s

\* str.strip()
Strip(s) == RStrip(LStrip(s))

\* "\n".join(list), and "".join(list)
RECURSIVE JoinNoSeparator(_)
JoinNoSeparator(l) == IF l = <<>> THEN <<>> ELSE Head(l) \o JoinNoSeparator(Tail(l))
RECURSIVE JoinLines(_)
JoinLines(l) ==
    IF l = <<>> THEN <<>>
    ELSE IF Len(l) = 1 THEN Head(l)
    ELSE Head(l) \o <<10>> \o JoinLines(Tail(l))

\* str.encode("utf-8") of one code point, then of a str
Utf8Char(c) ==
    IF c < 128 THEN <<c>>
    ELSE IF c < 2048 THEN <<192 + (c \div 64), 128 + (c % 64)>>
    ELSE IF c < 65536
         THEN <<224 + (c \div 4096), 128 + ((c \div 64) % 64), 128 + (c % 64)>>
    ELSE <<240 + (c \div 262144), 128 + ((c \div 4096) % 64),
           128 + ((c \div 64) % 64), 128 + (c % 64)>>

RECURSIVE Utf8Encode(_)
Utf8Encode(s) == IF s = <<>> THEN <<>> ELSE Utf8Char(Head(s)) \o Utf8Encode(Tail(s))

\* str.lower() on the Basic Latin and Latin-1 letters
LowerChar(c) ==
    IF c \in 65..90 \/ (c \in 192..222 /\ c # 215) THEN c + 32 ELSE c
Lower(s) == [i \in 1..Len(s) |-> LowerChar(s[i])]

\* name.split(".")[-1]: what follows the last "." (the whole name without one)
RECURSIVE LastPart(_)
LastPart(s) ==
    IF \E i \in 1..Len(s) : s[i] = 46
    THEN LastPart(SubSeq(s, (CHOOSE i \in 1..Len(s) : s[i] = 46) + 1, Len(s)))
    ELSE s

\* suffix = "." + uploaded_file.name.split(".")[-1].lower()
Suffix(name) == <<46>> \o Lower(LastPart(name))

----------------------------------------------------------------------------
\* Literals of app.py

\* "google", "sphinx": the values of API_CHOICES; an API name outside it
Google == <<103, 111, 111, 103, 108, 101>>
Sphinx == <<115, 112, 104, 105, 110, 120>>
OtherApi == <<119, 105, 116>>
API_CHOICES == {Google, Sphinx}

\* the values of LANG_MAP
LANG_MAP == {"fr-FR", "en-US", "es-ES", "ar-SA", "wo-SN"}

\* file_uploader(type=["wav", "flac"]): the extensions the picker accepts
UploaderTypes == {<<46, 119, 97, 118>>, <<46, 102, 108, 97, 99>>}

\* the error marker tested by message.startswith (U+2757 U+FE0F)
Marker == <<10071, 65039>>

\* app.py:78  "Impossible de cr_er un fichier tempor..." (code points, starting with the error marker)
MsgTempFile ==
    <<10071, 65039, 32, 73, 109, 112, 111, 115, 115, 105, 98, 108, 101, 32, 100, 101, 32, 99,
    114, 233, 101, 114, 32, 117, 110, 32, 102, 105, 99, 104, 105, 101, 114, 32, 116, 101, 109,
    112, 111, 114, 97, 105, 114, 101, 32, 112, 111, 117, 114, 32, 108, 39, 97, 117, 100, 105,
    111, 46>>
\* app.py:91  "L_API Google n_a pas compris l_audio...." (code points, starting with the error marker)
MsgGoogleUnknown ==
    <<10071, 65039, 32, 76, 8217, 65, 80, 73, 32, 71, 111, 111, 103, 108, 101, 32, 110, 8217,
    97, 32, 112, 97, 115, 32, 99, 111, 109, 112, 114, 105, 115, 32, 108, 8217, 97, 117, 100,
    105, 111, 46, 32, 67, 111, 110, 115, 101, 105, 108, 115, 58, 32, 112, 97, 114, 108, 101,
    122, 32, 112, 108, 117, 115, 32, 102, 111, 114, 116, 44, 32, 114, 233, 100, 117, 105, 115,
    101, 122, 32, 108, 101, 32, 98, 114, 117, 105, 116, 44, 32, 118, 233, 114, 105, 102, 105,
    101, 122, 32, 108, 97, 32, 108, 97, 110, 103, 117, 101, 32, 99, 104, 111, 105, 115, 105,
    101, 46>>
\* app.py:95  "Erreur de service Google (r_seau/quot..." (code points, starting with the error marker)
MsgGoogleRequest ==
    <<10071, 65039, 32, 69, 114, 114, 101, 117, 114, 32, 100, 101, 32, 115, 101, 114, 118, 105,
    99, 101, 32, 71, 111, 111, 103, 108, 101, 32, 40, 114, 233, 115, 101, 97, 117, 47, 113, 117,
    111, 116, 97, 47, 99, 108, 233, 41, 46, 32, 86, 233, 114, 105, 102, 105, 101, 122, 32, 118,
    111, 116, 114, 101, 32, 99, 111, 110, 110, 101, 120, 105, 111, 110, 32, 73, 110, 116, 101,
    114, 110, 101, 116, 44, 32, 114, 233, 101, 115, 115, 97, 121, 101, 122, 32, 112, 108, 117,
    115, 32, 116, 97, 114, 100, 46>>
\* app.py:105  "Sphinx n_a pas compris l_audio (souve..." (code points, starting with the error marker)
MsgSphinxUnknown ==
    <<10071, 65039, 32, 83, 112, 104, 105, 110, 120, 32, 110, 8217, 97, 32, 112, 97, 115, 32,
    99, 111, 109, 112, 114, 105, 115, 32, 108, 8217, 97, 117, 100, 105, 111, 32, 40, 115, 111,
    117, 118, 101, 110, 116, 32, 115, 101, 110, 115, 105, 98, 108, 101, 32, 224, 32, 108, 97,
    32, 113, 117, 97, 108, 105, 116, 233, 47, 97, 110, 103, 108, 97, 105, 115, 41, 46>>
\* app.py:108  "Sphinx indisponible: il faut installe..." (code points, starting with the error marker)
MsgSphinxRequest ==
    <<10071, 65039, 32, 83, 112, 104, 105, 110, 120, 32, 105, 110, 100, 105, 115, 112, 111, 110,
    105, 98, 108, 101, 58, 32, 105, 108, 32, 102, 97, 117, 116, 32, 105, 110, 115, 116, 97, 108,
    108, 101, 114, 32, 96, 112, 111, 99, 107, 101, 116, 115, 112, 104, 105, 110, 120, 96, 32,
    108, 111, 99, 97, 108, 101, 109, 101, 110, 116, 32, 40, 111, 117, 32, 99, 104, 111, 105,
    115, 105, 115, 115, 101, 122, 32, 71, 111, 111, 103, 108, 101, 32, 87, 101, 98, 32, 83, 112,
    101, 101, 99, 104, 32, 65, 80, 73, 41, 46>>
\* app.py:113  "API non reconnue...." (code points, starting with the error marker)
MsgUnknownApi ==
    <<10071, 65039, 32, 65, 80, 73, 32, 110, 111, 110, 32, 114, 101, 99, 111, 110, 110, 117,
    101, 46>>
\* app.py:116  "Fichier introuvable. Re-uploadez l_au..." (code points, starting with the error marker)
MsgNotFound ==
    <<10071, 65039, 32, 70, 105, 99, 104, 105, 101, 114, 32, 105, 110, 116, 114, 111, 117, 118,
    97, 98, 108, 101, 46, 32, 82, 101, 45, 117, 112, 108, 111, 97, 100, 101, 122, 32, 108, 8217,
    97, 117, 100, 105, 111, 46>>
\* app.py:118  "Format audio non support_. Utilisez u..." (code points, starting with the error marker)
MsgUnsupported ==
    <<10071, 65039, 32, 70, 111, 114, 109, 97, 116, 32, 97, 117, 100, 105, 111, 32, 110, 111,
    110, 32, 115, 117, 112, 112, 111, 114, 116, 233, 46, 32, 85, 116, 105, 108, 105, 115, 101,
    122, 32, 117, 110, 32, 102, 105, 99, 104, 105, 101, 114, 32, 87, 65, 86, 32, 111, 117, 32,
    70, 76, 65, 67, 46>>
\* app.py:121  "Erreur inattendue lors de la transcri..." (code points, starting with the error marker)
MsgUnexpected ==
    <<10071, 65039, 32, 69, 114, 114, 101, 117, 114, 32, 105, 110, 97, 116, 116, 101, 110, 100,
    117, 101, 32, 108, 111, 114, 115, 32, 100, 101, 32, 108, 97, 32, 116, 114, 97, 110, 115, 99,
    114, 105, 112, 116, 105, 111, 110, 46>>

----------------------------------------------------------------------------
\* Exceptions

\* the exception classes that occur, and their base classes (Python, speech_recognition)
Bases(t) ==
    CASE t = "UnknownValueError" -> {"UnknownValueError", "Exception"}
      [] t = "RequestError"      -> {"RequestError", "Exception"}
      [] t = "JSONDecodeError"   -> {"JSONDecodeError", "ValueError", "Exception"}
      [] t = "ValueError"        -> {"ValueError", "Exception"}
      [] t = "FileNotFoundError" -> {"FileNotFoundError", "OSError", "Exception"}
      [] t = "OSError"           -> {"OSError", "Exception"}
      [] t = "AssertionError"    -> {"AssertionError", "Exception"}
      [] OTHER                   -> {}

\* isinstance(e, cls), what an except clause tests
IsInstance(e, cls) == cls \in Bases(e.type)

\* type(e).__name__
TypeName(e) ==
    CASE e.type = "UnknownValueError" ->
            <<85, 110, 107, 110, 111, 119, 110, 86, 97, 108, 117, 101, 69, 114, 114, 111, 114>>
      [] e.type = "RequestError" ->
            <<82, 101, 113, 117, 101, 115, 116, 69, 114, 114, 111, 114>>
      [] e.type = "JSONDecodeError" ->
            <<74, 83, 79, 78, 68, 101, 99, 111, 100, 101, 69, 114, 114, 111, 114>>
      [] e.type = "ValueError" -> <<86, 97, 108, 117, 101, 69, 114, 114, 111, 114>>
      [] e.type = "FileNotFoundError" ->
            <<70, 105, 108, 101, 78, 111, 116, 70, 111, 117, 110, 100, 69, 114, 114, 111, 114>>
      [] e.type = "OSError" -> <<79, 83, 69, 114, 114, 111, 114>>
      [] e.type = "AssertionError" ->
            <<65, 115, 115, 101, 114, 116, 105, 111, 110, 69, 114, 114, 111, 114>>

\* f"{type(e).__name__}: {e}" and f"{type(e).__name__}"
FormatTypeAndText(e) == TypeName(e) \o <<58, 32>> \o e.msg
FormatType(e) == TypeName(e)

Exc(t, m) == [type |-> t, msg |-> m]
NoExc == Exc("none", <<>>)

\* an outcome of a call into a library: it returns (a text, where it has one) or raises
Returns(t) == [raises |-> FALSE, exc |-> NoExc, text |-> t]
Raises(e) == [raises |-> TRUE, exc |-> e, text |-> <<>>]
NotReached == [raises |-> FALSE, exc |-> Exc("unreached", <<>>), text |-> <<>>]

\* str(e) of the exceptions drawn: "quota", "bad file", or empty
TextQuota == <<113, 117, 111, 116, 97>>
TextBad == <<98, 97, 100>>

\* tempfile.NamedTemporaryFile(...) fails before a file exists, or the file is
\* created and tmp.write(uploaded_file.read()) fails (disk full, upload unreadable)
TmpOutcomes ==
    { [created |-> TRUE, out |-> Returns(<<>>)],
      [created |-> FALSE, out |-> Raises(Exc("OSError", TextQuota))],
      [created |-> TRUE, out |-> Raises(Exc("OSError", TextQuota))] }

\* sr.AudioFile(...).__enter__, adjust_for_ambient_noise, record.  AudioFile decides
\* by reading the file's content (WAV, AIFF, FLAC in turn), never by its name.
AudioOutcomes ==
    { Returns(<<>>),
      Raises(Exc("ValueError", TextBad)),
      Raises(Exc("FileNotFoundError", TextBad)),
      Raises(Exc("AssertionError", <<>>)) }

\* the texts a provider returns: "", "oui", " é\n" and a text starting with the marker
TextEmpty == <<>>
TextOui == <<111, 117, 105>>
TextSpaced == <<32, 233, 10>>
TextMarked == Marker \o <<111, 107>>
ProviderTexts == {TextEmpty, TextOui, TextSpaced, TextMarked}

\* recognize_google / recognize_sphinx: a text, or UnknownValueError, RequestError,
\* a malformed response (json.JSONDecodeError, a ValueError), a failed assertion
ProviderOutcomes ==
    { Returns(t) : t \in ProviderTexts } \cup
    { Raises(Exc("UnknownValueError", <<>>)),
      Raises(Exc("RequestError", TextQuota)),
      Raises(Exc("JSONDecodeError", TextBad)),
      Raises(Exc("AssertionError", <<>>)) }

\* tmp_path.unlink(missing_ok=True)
UnlinkOutcomes == { Returns(<<>>), Raises(Exc("OSError", TextBad)) }

\* What the libraries do during one call.  An outcome the call never reaches is
\* left NotReached: a temp-file failure ends the call before the audio is opened, an
\* audio failure before the provider is asked.
Env(t, a, p, u) == [tmp |-> t, audio |-> a, provider |-> p, unlink |-> u]
TmpOk == [created |-> TRUE, out |-> Returns(<<>>)]
Envs ==
    { Env(t, NotReached, NotReached, NotReached) : t \in TmpOutcomes \ {TmpOk} } \cup
    { Env(TmpOk, a, NotReached, u) :
            a \in AudioOutcomes \ {Returns(<<>>)}, u \in UnlinkOutcomes } \cup
    { Env(TmpOk, Returns(<<>>), p, u) : p \in ProviderOutcomes, u \in UnlinkOutcomes }

\* an env for the runs that call no library
CalmEnv == Env(TmpOk, Returns(<<>>), Returns(<<>>), Returns(<<>>))

----------------------------------------------------------------------------
\* transcribe_speech_from_file

\* a return statement: the (message, debug) pair; or an exception leaving the block
Return(m, d) == [returned |-> TRUE, message |-> m, debug |-> d, exc |-> NoExc]
Propagate(e) == [returned |-> FALSE, message |-> <<>>, debug |-> None, exc |-> e]

\* try: recognize_google(...) except UnknownValueError / RequestError
GoogleBranch(out) ==
    IF ~out.raises THEN Return(out.text, None)
    ELSE IF IsInstance(out.exc, "UnknownValueError")
         THEN Return(MsgGoogleUnknown, Some(FormatType(out.exc)))
    ELSE IF IsInstance(out.exc, "RequestError")
         THEN Return(MsgGoogleRequest, Some(FormatTypeAndText(out.exc)))
    ELSE Propagate(out.exc)

\* try: recognize_sphinx(...) except UnknownValueError / RequestError
SphinxBranch(out) ==
    IF ~out.raises THEN Return(out.text, None)
    ELSE IF IsInstance(out.exc, "UnknownValueError")
         THEN Return(MsgSphinxUnknown, Some(FormatType(out.exc)))
    ELSE IF IsInstance(out.exc, "RequestError")
         THEN Return(MsgSphinxRequest, Some(FormatTypeAndText(out.exc)))
    ELSE Propagate(out.exc)

\* which recognize_* the dispatch on api calls
Recognizer(api) ==
    IF api = Google THEN "google" ELSE IF api = Sphinx THEN "sphinx" ELSE "none"

\* if api == "google" ... elif api == "sphinx" ... else
Dispatch(api, out) ==
    IF api = Google THEN GoogleBranch(out)
    ELSE IF api = Sphinx THEN SphinxBranch(out)
    ELSE Return(MsgUnknownApi, Some(<<97, 112, 105, 61>> \o api))

\* the except clauses of the outer try, in their order
\* (mutant: the ValueError clause missing)
OuterHandlersNoValueError(e) ==
    IF IsInstance(e, "FileNotFoundError")
    THEN Return(MsgNotFound, Some(FormatTypeAndText(e)))
    ELSE Return(MsgUnexpected, Some(FormatTypeAndText(e)))
OuterHandlers(e) ==
    IF IsInstance(e, "FileNotFoundError")
    THEN Return(MsgNotFound, Some(FormatTypeAndText(e)))
    ELSE IF IsInstance(e, "ValueError")
    THEN Return(MsgUnsupported, Some(FormatTypeAndText(e)))
    ELSE Return(MsgUnexpected, Some(FormatTypeAndText(e)))

\* the body of the outer try: open and record the audio, then dispatch
TryBody(api, env) ==
    IF env.audio.raises THEN Propagate(env.audio.exc) ELSE Dispatch(api, env.provider)

\* no call was made in this run
NoCall ==
    [ran |-> FALSE, name |-> <<>>, suffix |-> <<>>, api |-> <<>>, language |-> "",
     message |-> <<>>, debug |-> None,
     tmp |-> [created |-> FALSE, out |-> NotReached], audio |-> NotReached,
     provider |-> NotReached, unlink |-> NotReached,
     recognize |-> "none", tmp_exists |-> FALSE]

\* The call, with what it did: the pair it returns (message, debug), the outcomes it
\* met (tmp, audio, provider, unlink; NotReached for a call it never made), the
\* recognize_* it called and whether its temporary file is still on disk afterwards.
transcribe_speech_from_file(uploaded_file, api, language, env) ==
    LET suffix == Suffix(uploaded_file.name)
        base == [NoCall EXCEPT !.ran = TRUE, !.name = uploaded_file.name,
                               !.suffix = suffix, !.api = api,
                               !.language = language, !.tmp = env.tmp]
    IN  IF env.tmp.out.raises
        THEN \* except Exception around the NamedTemporaryFile block: plain return
             [base EXCEPT !.message = MsgTempFile,
                          !.debug = Some(FormatTypeAndText(env.tmp.out.exc)),
                          !.tmp_exists = env.tmp.created]
        ELSE LET body == TryBody(api, env)
                 res == IF body.returned THEN body ELSE OuterHandlers(body.exc)
                 called == ~env.audio.raises /\ Recognizer(api) # "none"
                 gone == env.audio.raises
                         /\ IsInstance(env.audio.exc, "FileNotFoundError")
             IN  \* finally: tmp_path.unlink(missing_ok=True), its failure swallowed
                 [base EXCEPT !.message = res.message,
                              !.debug = res.debug,
                              !.audio = env.audio,
                              !.provider = IF called THEN env.provider ELSE NotReached,
                              !.recognize = IF called THEN Recognizer(api) ELSE "none",
                              !.unlink = env.unlink,
                              !.tmp_exists = env.unlink.raises /\ ~gone]

----------------------------------------------------------------------------
\* The script, top to bottom

\* if message.startswith(marker): last_transcript = None, else = message
\* (mutant: the transcript is kept when the call fails)
TranscribeWritesKeepOnError(message, old) ==
    IF StartsWith(message, Marker) THEN old ELSE Some(message)
TranscribeWrites(message, old) ==
    IF StartsWith(message, Marker) THEN None ELSE Some(message)

\* st.session_state["segments"].append(last_transcript)
\* (mutant: inserted at the front)
AddToDocFront(segs, t) == <<t>> \o segs
AddToDoc(segs, t) == Append(segs, t)

\* st.session_state["segments"].clear()  (mutant: drops the last segment only)
ResetDocDropLast(segs) == IF segs = <<>> THEN segs ELSE SubSeq(segs, 1, Len(segs) - 1)
ResetDoc(segs) == <<>>

\* full_text = "\n".join(segments).strip()
\* (mutant: the segments joined without the newline)
FullTextNoSeparator(segs) == Strip(JoinNoSeparator(segs))
FullText(segs) == Strip(JoinLines(segs))

\* `if st.session_state["segments"]:`
ShowDocument(segs) == segs # <<>>

BlankPage ==
    [alert |-> "none", written |-> None, debug_code |-> None, notice |-> "none",
     add_button |-> FALSE, reset_button |-> FALSE, single_download |-> None,
     cumulative_text |-> None, cumulative_download |-> None]

\* One run of the script with the widgets at (api, lang, file, debug), the buttons
\* clicked as given (a button not rendered cannot read as clicked) and the library
\* calls ending as env says.
Script(api, lang, file, debug, transcribe_btn, add_click, reset_click, env, ev) ==
    \* each value is bound once, in the order the script computes it
    \E c \in {IF transcribe_btn /\ file.some
               THEN transcribe_speech_from_file(file.val, api, lang, env)
               ELSE NoCall} :
    \E lt \in {IF c.ran THEN TranscribeWrites(c.message, last_transcript)
                ELSE last_transcript} :
    \E buttons \in {Truthy(lt)} :
    \E segs \in {IF buttons /\ reset_click
                  THEN ResetDoc(IF buttons /\ add_click
                                THEN AddToDoc(segments, lt.val) ELSE segments)
                  ELSE IF buttons /\ add_click
                       THEN AddToDoc(segments, lt.val) ELSE segments} :
    \E full_text \in {IF ShowDocument(segs) THEN Some(FullText(segs)) ELSE None} :
        /\ last_transcript' = lt
        /\ segments' = segs
        /\ api_choice' = api
        /\ language_code' = lang
        /\ audio_file' = file
        /\ show_debug' = debug
        /\ event' = ev
        /\ call' = c
        /\ page' =
             [alert |-> IF ~transcribe_btn THEN "none"
                        ELSE IF ~c.ran THEN "warning"
                        ELSE IF StartsWith(c.message, Marker) THEN "error"
                        ELSE "success",
              written |-> IF c.ran THEN Some(c.message) ELSE None,
              debug_code |-> IF c.ran /\ debug /\ Truthy(c.debug) THEN c.debug ELSE None,
              notice |-> IF buttons /\ reset_click THEN "cleared"
                         ELSE IF buttons /\ add_click THEN "added" ELSE "none",
              add_button |-> buttons,
              reset_button |-> buttons,
              single_download |-> IF Truthy(lt) THEN Some(Utf8Encode(lt.val)) ELSE None,
              cumulative_text |-> full_text,
              cumulative_download |->
                    IF full_text.some THEN Some(Utf8Encode(full_text.val)) ELSE None]

\* the files the picker lets through: "a.wav", "b.FLAC"; and for a direct call of
\* the function also "c.mp3" and "memo" (no extension)
NameWav == <<97, 46, 119, 97, 118>>
NameFlacUpper == <<98, 46, 70, 76, 65, 67>>
NameMp3 == <<99, 46, 109, 112, 51>>
NameBare == <<109, 101, 109, 111>>
AllNames == {NameWav, NameFlacUpper, NameMp3, NameBare}
File(n) == [name |-> n]
\* the picker compares the extension case-insensitively
Uploadable == { File(n) : n \in { m \in AllNames : Suffix(m) \in UploaderTypes } }

Init ==
    /\ last_transcript = None
    /\ segments = <<>>
    /\ api_choice = Google
    /\ language_code = "fr-FR"
    /\ audio_file = None
    /\ show_debug = FALSE
    /\ event = "init"
    /\ call = NoCall
    /\ page = BlankPage

\* "Transcrire" clicked with no file selected: the warning
SubmitNoFile ==
    /\ ~audio_file.some
    /\ Script(api_choice, language_code, audio_file, show_debug,
              TRUE, FALSE, FALSE, CalmEnv, "submit_nofile")

\* "Transcrire" clicked with a file selected
SubmitFile ==
    /\ audio_file.some
    /\ \E env \in Envs :
          Script(api_choice, language_code, audio_file, show_debug,
                 TRUE, FALSE, FALSE, env, "submit")

\* "Ajouter ce résultat au document" clicked
AddToDocument ==
    /\ page.add_button
    /\ Len(segments) < MaxSegments
    /\ Script(api_choice, language_code, audio_file, show_debug,
              FALSE, TRUE, FALSE, CalmEnv, "add")

\* "Réinitialiser le document" clicked
ResetDocument ==
    /\ page.reset_button
    /\ Script(api_choice, language_code, audio_file, show_debug,
              FALSE, FALSE, TRUE, CalmEnv, "reset")

\* the API select box changed
ChangeApi ==
    \E a \in API_CHOICES \ {api_choice} :
        Script(a, language_code, audio_file, show_debug,
               FALSE, FALSE, FALSE, CalmEnv, "widget")

\* the language select box changed
ChangeLanguage ==
    \E l \in LANG_MAP \ {language_code} :
        Script(api_choice, l, audio_file, show_debug,
               FALSE, FALSE, FALSE, CalmEnv, "widget")

\* the debug checkbox toggled
ToggleDebug ==
    Script(api_choice, language_code, audio_file, ~show_debug,
           FALSE, FALSE, FALSE, CalmEnv, "widget")

\* a file uploaded, replaced or removed
ChangeFile ==
    \E f \in ({None} \cup { Some(u) : u \in Uploadable }) \ {audio_file} :
        Script(api_choice, language_code, f, show_debug,
               FALSE, FALSE, FALSE, CalmEnv, "widget")

\* a rerun with nothing clicked (a download button, a browser refresh of the widgets)
Rerun ==
    Script(api_choice, language_code, audio_file, show_debug,
           FALSE, FALSE, FALSE, CalmEnv, "rerun")

Next ==
    \/ SubmitNoFile
    \/ SubmitFile
    \/ AddToDocument
    \/ ResetDocument
    \/ ChangeApi
    \/ ChangeLanguage
    \/ ToggleDebug
    \/ ChangeFile
    \/ Rerun

Spec == Init /\ [][Next]_vars

\* transcribe_speech_from_file called directly, on any file name and API name
FnApis == {Google, Sphinx, OtherApi}
InitFn == Init
CallFunction ==
    /\ ~call.ran
    /\ \E n \in AllNames, a \in FnApis, l \in LANG_MAP, env \in Envs :
          call' = transcribe_speech_from_file(File(n), a, l, env)
    /\ event' = "call"
    /\ UNCHANGED <<last_transcript, segments, api_choice, language_code, audio_file,
                   show_debug, page>>
NextFn == CallFunction
SpecFn == InitFn /\ [][NextFn]_vars

----------------------------------------------------------------------------
\* Properties

\* the call reached a provider and the provider returned a text
CallSucceeded(c) == c.ran /\ c.recognize # "none" /\ ~c.provider.raises

\* the failure kind of the taxonomy a call's cause belongs to: where it failed and
\* with which exception
CauseKind(c) ==
    IF c.tmp.out.raises THEN "file"
    ELSE IF c.audio.raises
         THEN IF IsInstance(c.audio.exc, "FileNotFoundError") THEN "file"
              ELSE IF IsInstance(c.audio.exc, "ValueError") THEN "format"
              ELSE "unexpected"
    ELSE IF c.recognize = "none" THEN "api"
    ELSE IF ~c.provider.raises THEN "success"
    ELSE IF IsInstance(c.provider.exc, "UnknownValueError") THEN "unrecognized"
    ELSE IF IsInstance(c.provider.exc, "RequestError") THEN "unavailable"
    ELSE "unexpected"

\* the failure kind a message announces
MessageKind(m) ==
    IF m \in {MsgTempFile, MsgNotFound} THEN "file"
    ELSE IF m = MsgUnsupported THEN "format"
    ELSE IF m \in {MsgGoogleUnknown, MsgSphinxUnknown} THEN "unrecognized"
    ELSE IF m \in {MsgGoogleRequest, MsgSphinxRequest} THEN "unavailable"
    ELSE IF m = MsgUnknownApi THEN "api"
    ELSE IF m = MsgUnexpected THEN "unexpected"
    ELSE "success"

\* C1: a submit whose transcription call fails leaves the segments as they were and
\* leaves last_transcript None, whatever it held before.
C1_FailedTranscription ==
    [][ (event' = "submit" /\ ~CallSucceeded(call'))
            => (segments' = segments /\ last_transcript' = None) ]_vars

\* C1 case: a failed submit on a session that holds a document.
C1_Witness ==
    /\ event = "submit"
    /\ call.ran /\ ~CallSucceeded(call)
    /\ page.alert = "error"
    /\ segments # <<>>

\* C2: after a submit whose provider returned a text, last_transcript is that text
\* and the single-result download is offered with its UTF-8 bytes.
C2_SuccessKeepsText ==
    (event = "submit" /\ CallSucceeded(call))
        => /\ last_transcript = Some(call.provider.text)
           /\ page.single_download = Some(Utf8Encode(call.provider.text))

\* C3 as stated: after an add the cumulative text is the segments, the added one
\* last, joined by single newlines with every character kept.
C3_JoinedExactly ==
    [][ event' = "add"
            => page'.cumulative_text
                 = Some(JoinLines(Append(segments, last_transcript.val))) ]_vars

\* the text has no whitespace at either end
Trimmed(s) == s = <<>> \/ (~IsSpace(s[1]) /\ ~IsSpace(s[Len(s)]))

\* C3 amended: after an add the cumulative text, as displayed and as offered for
\* download, is the segments joined by single newlines in the order added, with
\* the whitespace at the two ends of the whole text removed; it is exactly the
\* join when the join has no whitespace at its ends, and after A then B it is
\* "A\nB" stripped.
C3_JoinedAndStripped ==
    [][ event' = "add"
            => LET all == Append(segments, last_transcript.val)
                   joined == JoinLines(all)
                   shown == page'.cumulative_text
               IN  /\ shown.some
                   /\ shown.val = RStrip(LStrip(joined))
                   /\ Trimmed(joined) => shown.val = joined
                   /\ Len(all) = 2
                        => shown.val = RStrip(LStrip(all[1] \o <<10>> \o all[2]))
                   /\ page'.cumulative_download = Some(Utf8Encode(shown.val)) ]_vars

\* C3 case: two different transcripts added, the whole text losing whitespace.
C3_Witness ==
    /\ event = "add"
    /\ Len(segments) = 2 /\ segments[1] # segments[2]
    /\ page.cumulative_text.some
    /\ page.cumulative_text.val # JoinLines(segments)

\* C4: the reset action is available whatever last_transcript holds; stated on the
\* states where there is a document to clear.
C4_ResetAlwaysAvailable == segments # <<>> => page.reset_button

\* C5: when a call returns and its cleanup did not itself fail, the temporary file
\* it created is gone.
C5_TempFileCleaned == (call.ran /\ ~call.unlink.raises) => ~call.tmp_exists

\* C6: a failed call returns a message classified as an error with a non-empty
\* technical detail, and the message is the one of the failure's own kind.
C6_FailuresClassified ==
    (call.ran /\ ~CallSucceeded(call))
        => /\ StartsWith(call.message, Marker)
           /\ call.debug.some /\ call.debug.val # <<>>
           /\ MessageKind(call.message) = CauseKind(call)

C8_GrowsByAddShrinksByReset ==
    [][ /\ event' \notin {"add", "reset"} => segments' = segments
        /\ event' = "add"
             => /\ Len(segments') = Len(segments) + 1
                /\ SubSeq(segments', 1, Len(segments)) = segments
        /\ (Len(segments') < Len(segments)
              \/ SubSeq(segments', 1, Len(segments)) # segments) => event' = "reset"
        /\ event' = "submit_nofile" => last_transcript' = last_transcript ]_vars

\* C8 case: a submit with no file on a session holding a transcript and a document.
C8_Witness ==
    /\ event = "submit_nofile"
    /\ page.alert = "warning"
    /\ last_transcript.some
    /\ Len(segments) = 2 /\ segments[1] # segments[2]

\* C9: the run that performs a reset ends with no segments; they stay empty until
\* an add; the cumulative text and its download are rendered exactly when there
\* are segments.
C9_ResetEmptiesDocument ==
    [][ /\ event' = "reset" => segments' = <<>>
        /\ (segments = <<>> /\ event' # "add") => segments' = <<>>
        /\ page'.cumulative_text.some <=> segments' # <<>>
        /\ page'.cumulative_download.some <=> segments' # <<>> ]_vars

\* C9 case: a run that performed the reset and shows no document.
C9_Witness ==
    /\ event = "reset"
    /\ page.notice = "cleared"
    /\ segments = <<>>
    /\ ~page.cumulative_text.some /\ ~page.cumulative_download.some

\* C10 as stated: a call on a file whose extension is neither wav nor flac returns
\* the unsupported-format message with a detail and calls no recognize_*
\* (read for the calls with one of the two APIs that meet no failure of the
\* temporary file or of the file system while the audio is read).
C10_ExtensionRejected ==
    (/\ call.ran /\ call.suffix \notin UploaderTypes
     /\ call.api \in API_CHOICES
     /\ ~call.tmp.out.raises
     /\ call.audio.raises => IsInstance(call.audio.exc, "ValueError"))
        => /\ call.message = MsgUnsupported
           /\ call.debug.some /\ call.debug.val # <<>>
           /\ call.recognize = "none"

\* C10 amended: a call in which reading the audio raises ValueError, whatever the
\* file's extension, returns the unsupported-format message with a non-empty
\* detail and calls no recognize_*.
C10_UnreadableRejected ==
    (call.ran /\ call.audio.raises /\ IsInstance(call.audio.exc, "ValueError"))
        => /\ call.message = MsgUnsupported
           /\ call.debug.some /\ call.debug.val # <<>>
           /\ call.recognize = "none"

\* C10 case: a file with another extension that the audio reader rejects.
C10_Witness ==
    /\ call.ran
    /\ call.suffix \notin UploaderTypes
    /\ call.audio.raises /\ IsInstance(call.audio.exc, "ValueError")
============================================================================
